---- MODULE Spec2Model ----
(***************************************************************************)
(* ECCE Calendar tool (src/app.py): closure extraction from page text,     *)
(* the OpenHolidays provider with its on-disk cache, the window selector   *)
(* and the funding classifier.                                             *)
(*                                                                         *)
(* Representation of values                                                *)
(*   - a datetime/date/Timestamp is its proleptic Gregorian ordinal        *)
(*     (date.toordinal); NaT is the ordinal 0;                             *)
(*   - a "%d/%m/%Y" string is the tuple <<d, m, y>> of its three numbers;  *)
(*   - an ISO "YYYY-MM-DD" string is the tuple <<y, m, d>>;                *)
(*   - a dict is a function; a DataFrame is a sequence of row records.     *)
(***************************************************************************)
EXTENDS Integers, Sequences, FiniteSets, TLC

VARIABLES
    phase,      \* which operation produced the current record
    pdf,        \* the uploaded document: sequence of pages, a page = sequence of lines
    rows,       \* parse_ecce_pdf_to_df's DataFrame
    df,         \* the DataFrame handed to the selector / classifier
    today,      \* date.today()
    window,     \* <<valid_from, valid_to>> of the last selector run
    prov,       \* record of the last get_bank_holidays_ie_with_cache call
    kept,       \* the classifier's kept rows with their internal columns
    final,      \* the classifier's output table
    file,       \* BANK_HOLIDAY_CACHE_PATH on disk
    pc,         \* SpecRace: position of each process in the provider
    loc         \* SpecRace: locals of each process

vars == <<phase, pdf, rows, df, today, window, prov, kept, final, file, pc, loc>>

-----------------------------------------------------------------------------
(* Bounds *)

MaxLen == 4      \* tokens (lines and page breaks) in an uploaded document
MaxRows == 2     \* rows of a DataFrame given to the classifier / closure lines of a calendar
MaxItems == 2    \* items of a remote response
MaxCalls == 2    \* provider calls per process in SpecRace

-----------------------------------------------------------------------------
(* Calendar arithmetic behind datetime / pandas *)

NaT == 0

IsLeap(y) == (y % 4 = 0 /\ y % 100 # 0) \/ y % 400 = 0

DaysInMonth(y, m) ==
    IF m = 2 THEN (IF IsLeap(y) THEN 29 ELSE 28)
    ELSE IF m \in {4, 6, 9, 11} THEN 30 ELSE 31

DaysBeforeYear(y) ==
    (y - 1) * 365 + (y - 1) \div 4 - (y - 1) \div 100 + (y - 1) \div 400

DaysBeforeMonth(y, m) ==
    <<0, 31, 59, 90, 120, 151, 181, 212, 243, 273, 304, 334>>[m]
        + (IF m > 2 /\ IsLeap(y) THEN 1 ELSE 0)

ValidYMD(y, m, d) ==
    /\ y >= 1 /\ y <= 9999
    /\ m >= 1 /\ m <= 12
    /\ d >= 1 /\ d <= DaysInMonth(y, m)

ymd2ord(y, m, d) == DaysBeforeYear(y) + DaysBeforeMonth(y, m) + d

YearOf(n) ==
    CHOOSE y \in (n \div 366)..(n \div 365 + 1) :
        DaysBeforeYear(y) < n /\ n <= DaysBeforeYear(y + 1)

MonthOf(n) ==
    LET y == YearOf(n)
        r == n - DaysBeforeYear(y)
    IN  CHOOSE m \in 1..12 :
            DaysBeforeMonth(y, m) < r /\ r <= DaysBeforeMonth(y, m) + DaysInMonth(y, m)

DayOf(n) == n - DaysBeforeYear(YearOf(n)) - DaysBeforeMonth(YearOf(n), MonthOf(n))

\* the civil date of an ordinal, tabulated for the years the inputs lie in
Civil == [n \in ymd2ord(2025, 1, 1)..ymd2ord(2026, 12, 31) |->
            <<YearOf(n), MonthOf(n), DayOf(n)>>]
ord2ymd(n) == IF n \in DOMAIN Civil THEN Civil[n] ELSE <<YearOf(n), MonthOf(n), DayOf(n)>>

\* date.isoformat(): "YYYY-MM-DD"
isoformat(n) == ord2ymd(n)

\* strftime("%d/%m/%Y")
strftime(n) == LET c == ord2ymd(n) IN <<c[3], c[2], c[1]>>

\* pd.to_datetime(s, format="%d/%m/%Y", errors="coerce"): strict, NaT on failure
to_datetime_format(s) ==
    IF Len(s) = 3 /\ ValidYMD(s[3], s[2], s[1]) THEN ymd2ord(s[3], s[2], s[1]) ELSE NaT

\* pd.to_datetime(s, dayfirst=True): day first preferred, not strict: when the
\* first number cannot be a month-first reading it stays day/month, otherwise a
\* second number above 12 makes the string month/day.  NaT stands for the raise.
to_datetime_dayfirst(s) ==
    LET a == s[1]
        b == s[2]
        y == s[3]
    IN  IF a > 12 \/ b <= 12
        THEN (IF ValidYMD(y, b, a) THEN ymd2ord(y, b, a) ELSE NaT)
        ELSE (IF ValidYMD(y, a, b) THEN ymd2ord(y, a, b) ELSE NaT)

-----------------------------------------------------------------------------
(* ECCE PDF PARSER *)

FOOTER == "this calendar has been registered"

\* A line of page text: whether the anchor phrase "We will be closed on the
\* following dates:" occurs in it, and what follows the phrase on that line (the
\* whole line when it has no anchor).
TextLine(t) == [anchor |-> FALSE, kind |-> "text", text |-> t, start |-> <<>>, end |-> <<>>]
DateLine(s, e) == [anchor |-> FALSE, kind |-> "dates", text |-> "", start |-> s, end |-> e]
WithAnchor(l) == [l EXCEPT !.anchor = TRUE]
PageBreak == [anchor |-> FALSE, kind |-> "break", text |-> "", start |-> <<>>, end |-> <<>>]

\* str.lower() on the texts of the model
lower(t) ==
    CASE t = "This calendar has been registered with Hive" -> "this calendar has been registered with hive"
      [] t = "THIS CALENDAR HAS BEEN REGISTERED" -> "this calendar has been registered"
      [] t = "Note: this calendar has been registered" -> "note: this calendar has been registered"
      [] t = "Christmas break" -> "christmas break"
      [] OTHER -> t

\* str.startswith(FOOTER) on lowered texts of the model
startswith_footer(t) ==
    t \in {FOOTER, "this calendar has been registered with hive"}

\* l.strip() is non-empty
nonblank(l) == ~(l.kind = "text" /\ l.text = "")

\* pattern.match(line): d{1,2}/d{1,2}/d{4}, optionally " - " and a second date
DateShape(s) == Len(s) = 3 /\ s[1] \in 0..99 /\ s[2] \in 0..99 /\ s[3] \in 0..9999
pattern_match(l) ==
    /\ l.kind = "dates"
    /\ DateShape(l.start)
    /\ (l.end = <<>> \/ DateShape(l.end))

\* text.split(ANCHOR)[-1].splitlines(), stripped, blanks dropped
LastAnchor(page) ==
    CHOOSE i \in 1..Len(page) :
        page[i].anchor /\ \A j \in (i + 1)..Len(page) : ~page[j].anchor

lines_after(page) ==
    LET i == LastAnchor(page)
    IN  SelectSeq([k \in 1..(Len(page) - i + 1) |-> [page[i + k - 1] EXCEPT !.anchor = FALSE]],
                  nonblank)

\* the for-loop over lines of one page (lines 47-71)
RECURSIVE parse_lines(_)
parse_lines(lines) ==
    IF lines = <<>> THEN <<>>
    ELSE LET line == Head(lines)
         IN  IF line.kind = "text" /\ startswith_footer(lower(line.text))
             THEN <<>>                                          \* break
             ELSE IF ~pattern_match(line)
             THEN parse_lines(Tail(lines))                      \* continue
             ELSE LET start_dt == to_datetime_dayfirst(line.start)
                      end_dt == IF line.end # <<>> THEN to_datetime_dayfirst(line.end)
                                ELSE start_dt
                  IN  IF start_dt = NaT \/ end_dt = NaT
                      THEN parse_lines(Tail(lines))             \* except: continue
                      ELSE <<[name |-> "Closed",
                              start |-> strftime(start_dt),
                              end |-> strftime(end_dt)]>> \o parse_lines(Tail(lines))

parse_page(page) ==
    IF \A i \in 1..Len(page) : ~page[i].anchor
    THEN <<>>
    ELSE parse_lines(lines_after(page))

RECURSIVE parse_ecce_pdf_to_df(_)
parse_ecce_pdf_to_df(pages) ==
    IF pages = <<>> THEN <<>>
    ELSE parse_page(Head(pages)) \o parse_ecce_pdf_to_df(Tail(pages))

-----------------------------------------------------------------------------
(* Documents of the extractor's specification *)

ExtractTokens ==
    { WithAnchor(TextLine("")),
      WithAnchor(DateLine(<<25, 8, 2025>>, <<29, 8, 2025>>)),
      DateLine(<<2, 2, 2026>>, <<>>),
      DateLine(<<22, 12, 2025>>, <<2, 1, 2026>>),
      DateLine(<<31, 2, 2026>>, <<>>),
      DateLine(<<12, 25, 2025>>, <<>>),
      TextLine("This calendar has been registered with Hive"),
      TextLine("THIS CALENDAR HAS BEEN REGISTERED"),
      TextLine("Note: this calendar has been registered"),
      TextLine(""),
      PageBreak }

Streams == UNION { [1..n -> ExtractTokens] : n \in 0..MaxLen }

\* pdf.pages: the stream cut at its page breaks
RECURSIVE Paginate(_, _)
Paginate(stream, cur) ==
    IF stream = <<>> THEN <<cur>>
    ELSE IF Head(stream).kind = "break"
         THEN <<cur>> \o Paginate(Tail(stream), <<>>)
         ELSE Paginate(Tail(stream), Append(cur, Head(stream)))

Documents == { Paginate(s, <<>>) : s \in Streams }

-----------------------------------------------------------------------------
(* OPENHOLIDAYS (Public Holidays) HELPERS *)

\* Python dicts as functions
EmptyDict == [k \in {} |-> ""]
put(h, k, v) == [x \in DOMAIN h \cup {k} |-> IF x = k THEN v ELSE h[x]]

\* A value of the remote JSON that may hold a date: <<>> is a missing field,
\* <<y, m, d>> the string "YYYY-MM-DD", <<y, m, d, 1>> a longer datetime string.
\* datetime.strptime(str(raw), "%Y-%m-%d").date(); NaT stands for ValueError
strptime_iso(raw) ==
    IF Len(raw) = 3 /\ ValidYMD(raw[1], raw[2], raw[3])
    THEN ymd2ord(raw[1], raw[2], raw[3]) ELSE NaT

\* str(raw)[:10]
slice10(raw) == IF Len(raw) > 3 THEN SubSeq(raw, 1, 3) ELSE raw

\* The name of an item: a string, a translation object, or a list of them.
NameStr(t) == [shape |-> "str", text |-> t, list |-> <<>>]
NameDict(t) == [shape |-> "dict", text |-> t, list |-> <<>>]
NameList(l) == [shape |-> "list", text |-> "", list |-> l]

\* lines 175-187
resolve_name(name) ==
    IF name.shape = "list" /\ name.list # <<>>
    THEN LET en == { i \in 1..Len(name.list) : name.list[i].language = "EN" }
             picked == IF en # {}
                       THEN name.list[CHOOSE i \in en : \A j \in en : i <= j]
                       ELSE name.list[1]
         IN  IF picked.text # "" THEN picked.text ELSE "Bank Holiday"
    ELSE IF name.shape = "list" THEN "Bank Holiday"
    ELSE IF name.text # "" THEN name.text ELSE "Bank Holiday"

\* lines 201-204: expand a holiday to its individual dates
RECURSIVE expand(_, _, _, _)
expand(holidays, cur, end_dt, name) ==
    IF cur <= end_dt
    THEN expand(put(holidays, isoformat(cur), name), cur + 1, end_dt, name)
    ELSE holidays

\* lines 158-206: the loop over the decoded response
RECURSIVE decode_items(_, _)
decode_items(data, holidays) ==
    IF data = <<>> THEN holidays
    ELSE LET item == Head(data)
             start_raw == item.startDate
             end_raw == IF item.endDate # <<>> THEN item.endDate ELSE start_raw
             strict == strptime_iso(start_raw) # NaT /\ strptime_iso(end_raw) # NaT
             start_dt == IF strict THEN strptime_iso(start_raw)
                         ELSE strptime_iso(slice10(start_raw))
             end_dt == IF strict THEN strptime_iso(end_raw)
                       ELSE strptime_iso(slice10(end_raw))
         IN  IF start_raw = <<>> \/ start_dt = NaT \/ end_dt = NaT
             THEN decode_items(Tail(data), holidays)            \* continue
             ELSE decode_items(Tail(data),
                               expand(holidays, start_dt, end_dt, resolve_name(item.name)))

\* The remote call of one fetch: resp.ok = FALSE is HTTPError / URLError /
\* TimeoutError / JSONDecodeError (or a body of some other shape), re-raised.
fetch_openholidays_public_holidays_ie(resp) ==
    IF resp.ok
    THEN [raised |-> FALSE, holidays |-> decode_items(resp.data, EmptyDict)]
    ELSE [raised |-> TRUE, holidays |-> EmptyDict]

-----------------------------------------------------------------------------
(* The cache file: [exists, data], data the sequence of its cells.  A snapshot
   is a header cell (countryIsoCode, validFrom, validTo), one cell per holiday
   and a closing cell. *)

NoFile == [exists |-> FALSE, data |-> <<>>]
HeadCell(vf, vt) == [t |-> "head", k |-> vf, v |-> "IE", w |-> vt]
EntryCell(k, v) == [t |-> "entry", k |-> k, v |-> v, w |-> <<>>]
TailCell == [t |-> "tail", k |-> <<>>, v |-> "", w |-> <<>>]

IsoLess(a, b) ==
    \/ a[1] < b[1]
    \/ a[1] = b[1] /\ a[2] < b[2]
    \/ a[1] = b[1] /\ a[2] = b[2] /\ a[3] < b[3]

RECURSIVE dump_entries(_, _)
dump_entries(h, keys) ==
    IF keys = {} THEN <<>>
    ELSE LET k == CHOOSE x \in keys : \A z \in keys \ {x} : IsoLess(x, z)
         IN  <<EntryCell(k, h[k])>> \o dump_entries(h, keys \ {k})

\* json.dumps(payload, indent=2) (lines 106-113)
json_dumps(valid_from, valid_to, holidays) ==
    <<HeadCell(valid_from, valid_to)>> \o dump_entries(holidays, DOMAIN holidays) \o <<TailCell>>

WellFormed(data) ==
    /\ Len(data) >= 2
    /\ data[1].t = "head"
    /\ data[Len(data)].t = "tail"
    /\ \A i \in 2..(Len(data) - 1) : data[i].t = "entry"

RECURSIVE load_entries(_, _)
load_entries(cells, h) ==
    IF cells = <<>> THEN h
    ELSE load_entries(Tail(cells), put(h, Head(cells).k, Head(cells).v))

\* json.loads(text): ok = FALSE is JSONDecodeError
json_loads(data) ==
    IF WellFormed(data)
    THEN [ok |-> TRUE, validFrom |-> data[1].k, validTo |-> data[1].w,
          holidays |-> load_entries(SubSeq(data, 2, Len(data) - 1), EmptyDict)]
    ELSE [ok |-> FALSE, validFrom |-> <<>>, validTo |-> <<>>, holidays |-> EmptyDict]

\* open(path, "w"): creates or truncates
open_w(f) == [exists |-> TRUE, data |-> <<>>]

\* write(2) of the whole text at the writer's own offset 0
write_at0(f, text) ==
    [exists |-> TRUE,
     data |-> text \o (IF Len(f.data) > Len(text)
                       THEN SubSeq(f.data, Len(text) + 1, Len(f.data)) ELSE <<>>)]

\* Path.write_text (line 113).  wr is what the file system does: "ok",
\* "open_fails" (OSError before the file is touched) or "write_fails" (OSError
\* after the truncation).
write_text(f, text, wr) ==
    CASE wr = "ok" -> [raised |-> FALSE, file |-> write_at0(open_w(f), text)]
      [] wr = "open_fails" -> [raised |-> TRUE, file |-> f]
      [] OTHER -> [raised |-> TRUE, file |-> open_w(f)]

\* the cache is never consulted
fallback_ignores_cache(f) ==
    [ret |-> EmptyDict, notice |-> "nocache", raised |-> FALSE, file |-> f]

\* the cache is opened for writing before it is read
fallback_truncating(f) ==
    IF f.exists
    THEN [ret |-> EmptyDict, notice |-> "nocache", raised |-> FALSE, file |-> open_w(f)]
    ELSE [ret |-> EmptyDict, notice |-> "nocache", raised |-> FALSE, file |-> f]

\* lines 116-129: the except branch, reading the file f
fallback(f) ==
    LET cached == json_loads(f.data)
    IN  IF f.exists /\ cached.ok
        THEN [ret |-> cached.holidays, notice |-> "cached", raised |-> FALSE, file |-> f]
        ELSE [ret |-> EmptyDict, notice |-> "nocache", raised |-> FALSE, file |-> f]

\* lines 89-129
get_bank_holidays_ie_with_cache(f, valid_from, valid_to, resp, wr) ==
    LET fetched == fetch_openholidays_public_holidays_ie(resp)
        written == write_text(f, json_dumps(valid_from, valid_to, fetched.holidays), wr)
    IN  IF fetched.raised THEN fallback(f)
        ELSE IF written.raised THEN fallback(written.file)
        ELSE [ret |-> fetched.holidays, notice |-> "", raised |-> FALSE,
              file |-> written.file]

\* what the fetch of a call returned ({} when it raised)
fetched_by(resp) == fetch_openholidays_public_holidays_ie(resp).holidays

-----------------------------------------------------------------------------
(* Window selector *)

RECURSIVE SeqMin(_)
SeqMin(s) == IF Len(s) = 1 THEN s[1]
             ELSE LET m == SeqMin(Tail(s)) IN IF s[1] <= m THEN s[1] ELSE m

RECURSIVE SeqMax(_)
SeqMax(s) == IF Len(s) = 1 THEN s[1]
             ELSE LET m == SeqMax(Tail(s)) IN IF s[1] >= m THEN s[1] ELSE m

\* lines 216-218 and 246-250: parse both columns, drop the rows with a NaT
with_dates(d) ==
    [i \in 1..Len(d) |-> [name |-> d[i].name,
                          start_dt |-> to_datetime_format(d[i].start),
                          end_dt |-> to_datetime_format(d[i].end)]]
has_dates(r) == r.start_dt # NaT /\ r.end_dt # NaT
dropna(d) == SelectSeq(with_dates(d), has_dates)

\* the end of the window taken from the year of the earliest start
calendar_range_year_of_start(d, tdy) ==
    LET tmp == dropna(d)
    IN  IF tmp = <<>>
        THEN <<isoformat(ymd2ord(ord2ymd(tdy)[1], 1, 1)), isoformat(ymd2ord(ord2ymd(tdy)[1], 12, 31))>>
        ELSE LET min_start == SeqMin([i \in 1..Len(tmp) |-> tmp[i].start_dt])
             IN  <<isoformat(min_start), isoformat(ymd2ord(ord2ymd(min_start)[1], 12, 31))>>

\* lines 209-229
calendar_range_for_openholidays(d, tdy) ==
    LET tmp == dropna(d)
    IN  IF tmp = <<>>
        THEN <<isoformat(ymd2ord(ord2ymd(tdy)[1], 1, 1)), isoformat(ymd2ord(ord2ymd(tdy)[1], 12, 31))>>
        ELSE LET min_start == SeqMin([i \in 1..Len(tmp) |-> tmp[i].start_dt])
                 max_end == SeqMax([i \in 1..Len(tmp) |-> tmp[i].end_dt])
                 end_of_year == ymd2ord(ord2ymd(max_end)[1], 12, 31)
             IN  <<isoformat(min_start), isoformat(end_of_year)>>

-----------------------------------------------------------------------------
(* ECCE FUNDING LOGIC *)

\* Python values of the "Funding Received to" column
OnlyService == [py |-> "str", v |-> "Only Service"]
None == [py |-> "NoneType", v |-> ""]

\* the older rule: only 2-day closures are "Only Service"
funding_rule_two_days_only(days) == IF days = 2 THEN OnlyService ELSE None

\* lines 255-260
funding_rule(days) == IF days \in {1, 2} THEN OnlyService ELSE None

\* the duration test left out
is_bank_holiday_any_length(r, bank_holiday_lookup) ==
    isoformat(r.start_dt) \in bank_holiday_lookup

\* line 268
is_bank_holiday_single_day(r, bank_holiday_lookup) ==
    isoformat(r.start_dt) \in bank_holiday_lookup /\ r.days = 1

\* lines 243-280.  f is the cache file, resp and wr what the remote service and
\* the file system do during the provider call.
process_funding_calendar(d, f, tdy, resp, wr) ==
    LET dated == dropna(d)
        withdays == [i \in 1..Len(dated) |->
                        [name |-> dated[i].name, start_dt |-> dated[i].start_dt,
                         end_dt |-> dated[i].end_dt,
                         days |-> (dated[i].end_dt - dated[i].start_dt) + 1]]
        \* the frame handed to the selector carries the original strings of the dated rows
        range == calendar_range_for_openholidays(
                     [i \in 1..Len(dated) |-> [name |-> dated[i].name,
                                               start |-> strftime(dated[i].start_dt),
                                               end |-> strftime(dated[i].end_dt)]], tdy)
        bank == get_bank_holidays_ie_with_cache(f, range[1], range[2], resp, wr)
        bank_holiday_lookup == DOMAIN bank.ret
        Keep(r) == ~is_bank_holiday_single_day(r, bank_holiday_lookup)
        keptrows == SelectSeq(withdays, Keep)
    IN  [window |-> range,
         bank |-> bank,
         kept |-> keptrows,
         final |-> [i \in 1..Len(keptrows) |->
                      [name |-> keptrows[i].name,
                       start |-> strftime(keptrows[i].start_dt),
                       end |-> strftime(keptrows[i].end_dt),
                       funding |-> funding_rule(keptrows[i].days)]]]

-----------------------------------------------------------------------------
(* The remote service and the file system *)

\* The items OpenHolidays may serve.
HolidayItems ==
    << [startDate |-> <<2025, 3, 17>>, endDate |-> <<2025, 3, 17>>,
        name |-> NameList(<<[language |-> "GA", text |-> "La Fheile Padraig"],
                            [language |-> "EN", text |-> "Saint Patrick's Day"]>>)],
       [startDate |-> <<2025, 12, 25>>, endDate |-> <<2025, 12, 26>>,
        name |-> NameStr("Christmas")],
       [startDate |-> <<2026, 1, 1, 1>>, endDate |-> <<>>,
        name |-> NameDict("New Year's Day")],
       [startDate |-> <<2025, 2, 30>>, endDate |-> <<>>, name |-> NameStr("")] >>

\* The service honours validFrom / validTo: a dated item lies in the window.
InWindow(item, valid_from, valid_to) ==
    LET s == slice10(item.startDate)
        e == IF item.endDate = <<>> THEN s ELSE slice10(item.endDate)
    IN  strptime_iso(s) = NaT \/ strptime_iso(e) = NaT
        \/ (~IsoLess(s, valid_from) /\ ~IsoLess(valid_to, e))

RECURSIVE PickItems(_, _)
PickItems(S, i) ==
    IF i > Len(HolidayItems) THEN <<>>
    ELSE (IF i \in S THEN <<HolidayItems[i]>> ELSE <<>>) \o PickItems(S, i + 1)

Responses(valid_from, valid_to) ==
    LET served == { i \in 1..Len(HolidayItems) : InWindow(HolidayItems[i], valid_from, valid_to) }
    IN  { [ok |-> FALSE, data |-> <<>>] }
        \cup { [ok |-> TRUE, data |-> PickItems(S, 1)] :
                 S \in { T \in SUBSET served : Cardinality(T) <= MaxItems } }

WriteOutcomes == {"ok", "open_fails", "write_fails"}

-----------------------------------------------------------------------------
(* STREAMLIT APP and direct calls of the classifier *)

Row(s, e) == [name |-> "Closed", start |-> s, end |-> e]

\* Closure lines of an uploaded calendar
ClosureLines ==
    { DateLine(<<17, 3, 2025>>, <<>>),
      DateLine(<<17, 3, 2025>>, <<18, 3, 2025>>),
      DateLine(<<22, 12, 2025>>, <<2, 1, 2026>>),
      DateLine(<<18, 3, 2025>>, <<17, 3, 2025>>) }

Calendars ==
    { <<<<WithAnchor(TextLine(""))>> \o ls>> :
        ls \in UNION { [1..n -> ClosureLines] : n \in 0..MaxRows } }

\* Rows of a DataFrame handed to the classifier directly
FrameRows ==
    { Row(<<17, 3, 2025>>, <<17, 3, 2025>>),
      Row(<<31, 2, 2025>>, <<1, 3, 2025>>) }

Frames == UNION { [1..n -> FrameRows] : n \in 0..MaxRows }

\* date.today() of the session, and the days the selector is tried on
Todays == { ymd2ord(2025, 12, 31) }
SelectorDays == { ymd2ord(2025, 12, 31), ymd2ord(2026, 2, 28) }

NoCall ==
    [called |-> FALSE, valid_from |-> <<>>, valid_to |-> <<>>, fetch_ok |-> FALSE,
     fetched |-> EmptyDict, wr |-> "", ret |-> EmptyDict, notice |-> "",
     raised |-> FALSE]

CallRecord(range, resp, wr, bank) ==
    [called |-> TRUE, valid_from |-> range[1], valid_to |-> range[2],
     fetch_ok |-> resp.ok,
     fetched |-> fetched_by(resp),
     wr |-> IF resp.ok THEN wr ELSE "",
     ret |-> bank.ret, notice |-> bank.notice, raised |-> bank.raised]

NoWindow == <<<<>>, <<>>>>

RaceIdle == pc = <<>> /\ loc = <<>>

Init ==
    /\ phase = "idle"
    /\ pdf = <<>> /\ rows = <<>> /\ df = <<>>
    /\ today \in Todays
    /\ window = NoWindow /\ prov = NoCall
    /\ kept = <<>> /\ final = <<>>
    /\ file = NoFile
    /\ RaceIdle

\* st.file_uploader
Upload(doc) ==
    /\ phase' = "uploaded"
    /\ pdf' = doc
    /\ rows' = <<>> /\ df' = <<>>
    /\ window' = NoWindow /\ prov' = NoCall /\ kept' = <<>> /\ final' = <<>>
    /\ UNCHANGED <<today, file, pc, loc>>

\* a caller prepares a DataFrame
Load(d) ==
    /\ phase' = "loaded"
    /\ df' = d
    /\ pdf' = <<>> /\ rows' = <<>>
    /\ window' = NoWindow /\ prov' = NoCall /\ kept' = <<>> /\ final' = <<>>
    /\ UNCHANGED <<today, file, pc, loc>>

\* the classifier run on d, with what the remote service and the file system do
Classified(d, done) ==
    \E range \in {calendar_range_for_openholidays(d, today)} :
    \E resp \in Responses(range[1], range[2]) :
    \E wr \in (IF resp.ok THEN WriteOutcomes ELSE {"ok"}) :
    \E res \in {process_funding_calendar(d, file, today, resp, wr)} :
        /\ window' = res.window
        /\ prov' = CallRecord(res.window, resp, wr, res.bank)
        /\ kept' = res.kept
        /\ final' = res.final
        /\ file' = res.bank.file
        /\ phase' = IF done /\ res.final = <<>> THEN "no_rows" ELSE IF done THEN "shown"
                    ELSE "processed"

\* lines 308-339: the "Process ECCE Calendar" button
main ==
    /\ phase \in {"uploaded", "no_closures", "no_rows", "shown"}
    /\ \E holidays \in {parse_ecce_pdf_to_df(pdf)} :
           /\ rows' = holidays
           /\ IF holidays = <<>>
              THEN /\ phase' = "no_closures"
                   /\ window' = NoWindow /\ prov' = NoCall
                   /\ kept' = <<>> /\ final' = <<>>
                   /\ UNCHANGED file
              ELSE Classified(holidays, TRUE)
    /\ UNCHANGED <<pdf, df, today, pc, loc>>

\* process_funding_calendar called on its own
Process ==
    /\ phase \in {"loaded", "processed"}
    /\ Classified(df, FALSE)
    /\ UNCHANGED <<pdf, rows, df, today, pc, loc>>

UploadFile == \E doc \in Calendars : Upload(doc)
LoadFrame == \E d \in Frames : Load(d)

Next == UploadFile \/ LoadFrame \/ main \/ Process

Spec == Init /\ [][Next]_vars

-----------------------------------------------------------------------------
(* The extractor on its own: every document of Documents is parsed once *)

InitExtract ==
    /\ phase = "uploaded"
    /\ pdf \in Documents
    /\ rows = <<>> /\ df = <<>>
    /\ today \in Todays
    /\ window = NoWindow /\ prov = NoCall
    /\ kept = <<>> /\ final = <<>>
    /\ file = NoFile
    /\ RaceIdle

ParseUpload ==
    /\ phase = "uploaded"
    /\ rows' = parse_ecce_pdf_to_df(pdf)
    /\ phase' = "parsed"
    /\ UNCHANGED <<pdf, df, today, window, prov, kept, final, file, pc, loc>>

NextExtract == ParseUpload

SpecExtract == InitExtract /\ [][NextExtract]_vars

-----------------------------------------------------------------------------
(* The window selector on its own *)

SelectorRows ==
    { Row(<<10, 3, 2025>>, <<12, 3, 2025>>),
      Row(<<1, 9, 2025>>, <<1, 9, 2025>>),
      Row(<<22, 12, 2025>>, <<2, 1, 2026>>),
      Row(<<5, 1, 2026>>, <<5, 1, 2025>>),
      Row(<<31, 2, 2025>>, <<1, 3, 2025>>),
      Row(<<1, 2, 2025>>, <<0, 0, 0>>) }

SelectorFrames == UNION { [1..n -> SelectorRows] : n \in 0..MaxRows }

InitRange ==
    /\ phase = "loaded"
    /\ df \in SelectorFrames
    /\ today \in SelectorDays
    /\ pdf = <<>> /\ rows = <<>>
    /\ window = NoWindow /\ prov = NoCall
    /\ kept = <<>> /\ final = <<>>
    /\ file = NoFile
    /\ RaceIdle

SelectWindow ==
    /\ phase = "loaded"
    /\ window' = calendar_range_for_openholidays(df, today)
    /\ phase' = "selected"
    /\ UNCHANGED <<pdf, rows, df, today, prov, kept, final, file, pc, loc>>

NextRange == SelectWindow

SpecRange == InitRange /\ [][NextRange]_vars

-----------------------------------------------------------------------------
(* Concurrent processes in get_bank_holidays_ie_with_cache, one system call a step *)

Procs == {"p1", "p2"}
RaceFrom == <<2025, 1, 1>>
RaceTo == <<2026, 12, 31>>

Locals(n, h, r, o, ret, notice) ==
    [calls |-> n, holidays |-> h, read |-> r, observed |-> o, ret |-> ret, notice |-> notice]

InitRace ==
    /\ phase = "race"
    /\ pdf = <<>> /\ rows = <<>> /\ df = <<>>
    /\ today \in Todays
    /\ window = NoWindow /\ prov = NoCall
    /\ kept = <<>> /\ final = <<>>
    /\ file = NoFile
    /\ pc = [p \in Procs |-> "idle"]
    /\ loc = [p \in Procs |-> Locals(0, EmptyDict, FALSE, <<>>, EmptyDict, "")]

RaceFrame == UNCHANGED <<phase, pdf, rows, df, today, window, prov, kept, final>>

\* lines 99-104 / 116: the call enters and the fetch returns or raises
RaceFetch(p) ==
    /\ pc[p] = "idle"
    /\ loc[p].calls < MaxCalls
    /\ \E resp \in Responses(RaceFrom, RaceTo) :
       \E fetched \in {fetch_openholidays_public_holidays_ie(resp)} :
          /\ pc' = [pc EXCEPT ![p] = IF fetched.raised THEN "exists" ELSE "open"]
          /\ loc' = [loc EXCEPT ![p] = Locals(loc[p].calls + 1, fetched.holidays,
                                              FALSE, <<>>, EmptyDict, "")]
    /\ UNCHANGED file
    /\ RaceFrame

\* line 113, write_text: open(path, "w")
RaceOpen(p) ==
    /\ pc[p] = "open"
    /\ file' = open_w(file)
    /\ pc' = [pc EXCEPT ![p] = "write"]
    /\ UNCHANGED loc
    /\ RaceFrame

\* line 113, write_text: write and close; line 114
RaceWrite(p) ==
    /\ pc[p] = "write"
    /\ file' = write_at0(file, json_dumps(RaceFrom, RaceTo, loc[p].holidays))
    /\ pc' = [pc EXCEPT ![p] = "idle"]
    /\ loc' = [loc EXCEPT ![p].ret = loc[p].holidays]
    /\ RaceFrame

\* line 119: BANK_HOLIDAY_CACHE_PATH.exists(); lines 128-129 when it does not
RaceExists(p) ==
    /\ pc[p] = "exists"
    /\ IF file.exists
       THEN /\ pc' = [pc EXCEPT ![p] = "read"]
            /\ UNCHANGED loc
       ELSE /\ pc' = [pc EXCEPT ![p] = "idle"]
            /\ loc' = [loc EXCEPT ![p].notice = "nocache"]
    /\ UNCHANGED file
    /\ RaceFrame

\* lines 120-129: read_text, json.loads, return
RaceRead(p) ==
    /\ pc[p] = "read"
    /\ \E res \in {fallback(file)} :
          loc' = [loc EXCEPT ![p].read = TRUE, ![p].observed = file.data,
                             ![p].ret = res.ret, ![p].notice = res.notice]
    /\ pc' = [pc EXCEPT ![p] = "idle"]
    /\ UNCHANGED file
    /\ RaceFrame

Fetching == \E p \in Procs : RaceFetch(p)
Opening == \E p \in Procs : RaceOpen(p)
Writing == \E p \in Procs : RaceWrite(p)
Checking == \E p \in Procs : RaceExists(p)
Reading == \E p \in Procs : RaceRead(p)

NextRace == Fetching \/ Opening \/ Writing \/ Checking \/ Reading

SpecRace == InitRace /\ [][NextRace]_vars

-----------------------------------------------------------------------------
(* Properties.  They are stated on the strings and tables the operations
   exchange, with their own reading of a date. *)

\* a day/month/year string that names a calendar date
IsDMY(s) ==
    /\ Len(s) = 3
    /\ s[2] \in 1..12
    /\ s[1] >= 1
    /\ s[1] <= (IF s[2] = 2 THEN (IF IsLeap(s[3]) THEN 29 ELSE 28)
                ELSE IF s[2] \in {4, 6, 9, 11} THEN 30 ELSE 31)

\* order of day/month/year strings as dates
Earlier(s, t) ==
    \/ s[3] < t[3]
    \/ s[3] = t[3] /\ s[2] < t[2]
    \/ s[3] = t[3] /\ s[2] = t[2] /\ s[1] < t[1]

\* the calendar day after a day/month/year string
Tomorrow(s) ==
    IF IsDMY(<<s[1] + 1, s[2], s[3]>>) THEN <<s[1] + 1, s[2], s[3]>>
    ELSE IF s[2] < 12 THEN <<1, s[2] + 1, s[3]>> ELSE <<1, 1, s[3] + 1>>

\* inclusive day count from s to t, counted by stepping days (0 past MaxSpan or when t < s)
MaxSpan == 14
RECURSIVE Span(_, _, _)
Span(s, t, n) ==
    IF s = t THEN n
    ELSE IF n >= MaxSpan \/ Earlier(t, s) THEN 0
    ELSE Span(Tomorrow(s), t, n + 1)
Duration(s, t) == Span(s, t, 1)

AsIso(s) == <<s[3], s[2], s[1]>>

\* the elements of a sequence at the indices I, in order
RECURSIVE Pick(_, _)
Pick(sq, I) ==
    IF I = {} THEN <<>>
    ELSE LET i == CHOOSE x \in I : \A z \in I : x <= z
         IN  <<sq[i]>> \o Pick(sq, I \ {i})

RECURSIVE Flatten(_)
Flatten(ss) == IF ss = <<>> THEN <<>> ELSE Head(ss) \o Flatten(Tail(ss))

-----------------------------------------------------------------------------
(* C9 *)

FooterTexts == {"This calendar has been registered with Hive", "THIS CALENDAR HAS BEEN REGISTERED"}
IsFooterLine(l) == l.kind = "text" /\ l.text \in FooterTexts

\* the lines of a page the claim lets through: after the anchor phrase (the rest
\* of the anchor's own line included), before the first footer line, of the
\* date or date-range shape, with valid day/month/year dates
ClaimedLines(page) ==
    LET A == { i \in 1..Len(page) : page[i].anchor }
        a == CHOOSE i \in A : \A j \in A : j <= i
    IN  IF A = {} THEN {}
        ELSE { i \in a..Len(page) :
                 /\ \A j \in a..i : ~IsFooterLine(page[j])
                 /\ page[i].kind = "dates"
                 /\ IsDMY(page[i].start)
                 /\ (page[i].end = <<>> \/ IsDMY(page[i].end)) }

ClaimedRecord(l) ==
    [name |-> "Closed", start |-> l.start, end |-> IF l.end = <<>> THEN l.start ELSE l.end]

ClaimedRows(doc) ==
    Flatten([p \in 1..Len(doc) |->
                LET page == doc[p]
                    picked == Pick(page, ClaimedLines(page))
                IN  [k \in 1..Len(picked) |-> ClaimedRecord(picked[k])]])

\* C9: the extractor's output is exactly the in-order concatenation, page by
\* page, of the records of the lines after the anchor and before the first
\* footer line that have the date shape and valid dates; nothing at or after a
\* footer is parsed, a page without the anchor gives nothing.
C9_ExtractionExact == phase = "parsed" => rows = ClaimedRows(pdf)

-----------------------------------------------------------------------------
(* C8 *)

Parsable(d) == { i \in 1..Len(d) : IsDMY(d[i].start) /\ IsDMY(d[i].end) }

\* C8: for a closure list with a parsable row validFrom is the minimum start
\* date and validTo the 31 December of the year of the maximum end date; for a
\* list with no parsable row the window is 1 January to 31 December of the
\* current year.
C8_WindowRule ==
    phase = "selected" =>
        LET P == Parsable(df)
        IN  IF P = {}
            THEN window = << <<ord2ymd(today)[1], 1, 1>>, <<ord2ymd(today)[1], 12, 31>> >>
            ELSE /\ \E i \in P : /\ window[1] = AsIso(df[i].start)
                                 /\ \A j \in P : ~Earlier(df[j].start, df[i].start)
                 /\ \E i \in P : /\ window[2] = <<df[i].end[3], 12, 31>>
                                 /\ \A j \in P : ~Earlier(df[i].end, df[j].end)

\* the example of the specification: 10/03/2025-12/03/2025 and 01/09/2025
C8_Witness ==
    /\ phase = "selected"
    /\ df = <<Row(<<10, 3, 2025>>, <<12, 3, 2025>>), Row(<<1, 9, 2025>>, <<1, 9, 2025>>)>>
    /\ window = << <<2025, 3, 10>>, <<2025, 12, 31>> >>

-----------------------------------------------------------------------------
(* C1, C2, C7: the classifier *)

ClassifierRan == phase \in {"shown", "no_rows", "processed"}
ClassifierInput == IF phase = "processed" THEN df ELSE rows

Survivors(input, holidays) ==
    { i \in Parsable(input) :
        ~(Duration(input[i].start, input[i].end) = 1
          /\ AsIso(input[i].start) \in DOMAIN holidays) }

C7_DurationAtLeastOne ==
    phase \in {"shown", "no_rows"} =>
        /\ \A i \in 1..Len(rows) : ~Earlier(rows[i].end, rows[i].start)
        /\ \A i \in 1..Len(kept) :
              /\ kept[i].end_dt >= kept[i].start_dt
              /\ kept[i].days >= 1
              /\ kept[i].days = (kept[i].end_dt - kept[i].start_dt) + 1

-----------------------------------------------------------------------------
(* C3, C4, C6, C10: the provider *)

\* the file holds a whole snapshot
SnapshotOnDisk(f) ==
    /\ f.exists
    /\ Len(f.data) >= 2
    /\ f.data[1].t = "head"
    /\ f.data[Len(f.data)].t = "tail"
    /\ \A i \in 2..(Len(f.data) - 1) : f.data[i].t = "entry"

\* h is the holiday mapping of the snapshot in f
MappingOnDisk(f, h) ==
    /\ \A k \in DOMAIN h : \E i \in 2..(Len(f.data) - 1) : f.data[i].k = k /\ f.data[i].v = h[k]
    /\ \A i \in 2..(Len(f.data) - 1) : f.data[i].k \in DOMAIN h

FetchFailed == prov.called /\ ~prov.fetch_ok
FetchSucceeded == prov.called /\ prov.fetch_ok

\* C3: when the remote fetch fails the call returns the snapshot's mapping
\* with the "using cached" notice if a snapshot is on disk, the empty mapping
\* with the "no bank-holiday removals applied" notice if no file is there, and
\* raises in neither case.
C3_FallbackOnFailure ==
    FetchFailed =>
        /\ ~prov.raised
        /\ SnapshotOnDisk(file) => MappingOnDisk(file, prov.ret) /\ prov.notice = "cached"
        /\ ~file.exists => prov.ret = EmptyDict /\ prov.notice = "nocache"

C3_Witness ==
    /\ FetchFailed
    /\ SnapshotOnDisk(file)
    /\ prov.ret # EmptyDict
    /\ prov.notice = "cached"

\* C4: the file is absent at first; a step changes it only in a call whose
\* fetch succeeded (a call whose fetch failed leaves it as it was); once
\* present it stays present.
C4_CacheLifecycle ==
    /\ ~file.exists
    /\ [][ /\ file' # file => prov'.called /\ prov'.fetch_ok
           /\ file.exists => file'.exists ]_vars

C4_Witness ==
    /\ FetchFailed
    /\ file.exists

InWindowKey(k, from, to) ==
    /\ ~Earlier(<<k[3], k[2], k[1]>>, <<from[3], from[2], from[1]>>)
    /\ ~Earlier(<<to[3], to[2], to[1]>>, <<k[3], k[2], k[1]>>)

\* C6: every key of the holiday set a call hands back lies within the window
\* [validFrom, validTo] that call asked for.
C6_KeysWithinWindow ==
    prov.called =>
        \A k \in DOMAIN prov.ret : InWindowKey(k, prov.valid_from, prov.valid_to)

\* C10: when the remote call succeeds the wrapper returns the fetched set,
\* gives no fallback notice, and leaves on disk the snapshot of that set with
\* the requested validFrom and validTo.
C10_SuccessReturnsFresh ==
    FetchSucceeded =>
        /\ prov.ret = prov.fetched
        /\ prov.notice = ""
        /\ SnapshotOnDisk(file)
        /\ MappingOnDisk(file, prov.ret)
        /\ file.data[1].k = prov.valid_from
        /\ file.data[1].w = prov.valid_to

-----------------------------------------------------------------------------
(* C5 *)

WholeSnapshot(data) == SnapshotOnDisk([exists |-> TRUE, data |-> data])

\* C5: with concurrent unlocked calls every read of the file sees a whole
\* snapshot (or the file is absent and nothing is read), never a truncated or
\* partly written one, and when no call is in progress the file holds one
\* writer's whole snapshot.
C5_ReadersSeeWholeSnapshots ==
    /\ \A p \in DOMAIN loc : loc[p].read => WholeSnapshot(loc[p].observed)
    /\ (file.exists /\ \A p \in DOMAIN pc : pc[p] = "idle") => WholeSnapshot(file.data)

====
